---- MODULE Spec2Model ----
(***************************************************************************)
(* Model of the noise-and-error modelling lab: the QuantumSimulator        *)
(* (state-vector evolver, noise model, fidelity) and its host.             *)
(*                                                                         *)
(* Numbers.  The program computes in IEEE doubles.  The model computes in  *)
(* exact arithmetic: a probability is a reduced fraction <<n, d>>, and an  *)
(* amplitude component is <<a, k>>, standing for a * (1/sqrt 2)^k, which   *)
(* is the only shape the gates of this program produce from a basis state. *)
(* Math.sqrt is modelled rounded down to the grid of its argument's        *)
(* denominator (exact on squares).  Equalities of the model are therefore  *)
(* equalities "within floating tolerance" of the program.                  *)
(***************************************************************************)
EXTENDS Integers, Sequences, FiniteSets, TLC

VARIABLES
    numQubits,        \* QuantumSimulator.numQubits
    gates,            \* the caller's gate list (argument of simulate)
    noise,            \* the caller's noise configuration (argument of simulate)
    pc,               \* position of the invocation of simulate
    sortedGates,      \* local of simulate: the sorted copy, as references into gates
    idx,              \* local of simulate: position of the for-of loop
    idealAmplitudes,  \* local of simulate
    result,           \* what simulate returned (None before)
    history,          \* the amplitudes after each applyGate of the invocation
    firstResult,      \* what the first invocation on these inputs returned
    callerGates,      \* the gate list as the caller built it, before any call
    calls,            \* invocations completed on these inputs
    argIdeal,         \* argument ideal of a direct call of applyNoiseModel
    argGateCount,     \* argument gateCount of a direct call of applyNoiseModel
    retNoisy,         \* what that call returned (None before)
    argAmplitudes,    \* argument amplitudes of a direct call of applyGate
    argGate,          \* argument gate of a direct call of applyGate
    retAmplitudes,    \* what that call returned (None before)
    insightPc,        \* position of the invocation of getQuantumInsights
    insightRequest,   \* the prompt handed to the text-generation service
    insightReturn,    \* <<text>> once the invocation resolved (<<>> before)
    results,          \* App state: the stored SimulationResult (None: null)
    loading,          \* App state
    insights,         \* App state
    effectPending,    \* a render changed runSimulation and its effect has not run yet
    inflight,         \* what the invocations of runSimulation suspended at their await
                      \* will resume with, oldest first
    superseded        \* a result was stored while a later invocation was in flight

simVars   == <<numQubits, gates, pc, sortedGates, idx, idealAmplitudes,
               result, history, firstResult, callerGates, calls>>
noiseVars == <<argIdeal, argGateCount, retNoisy>>
gateVars  == <<argAmplitudes, argGate, retAmplitudes>>
\* everything outside the invocation of simulate and its arguments
insightVars == <<insightPc, insightRequest, insightReturn>>
hostVars  == <<results, loading, insights, effectPending, inflight, superseded>>
outside   == <<noiseVars, gateVars, insightVars, hostVars>>
vars      == <<simVars, noise, outside>>

\* no value: null, or a local not yet set
None == <<>>

----------------------------------------------------------------------------
(* Exact arithmetic *)

Abs(x) == IF x < 0 THEN -x ELSE x

RECURSIVE GCD(_, _)
GCD(a, b) == IF b = 0 THEN a ELSE GCD(b, a % b)

RECURSIVE Pow(_, _)
Pow(b, e) == IF e = 0 THEN 1 ELSE b * Pow(b, e - 1)

Max(a, b) == IF a > b THEN a ELSE b

\* the reduced fraction n/d (d # 0)
Frac(n, d) ==
    LET g == GCD(Abs(n), Abs(d))
        s == IF d < 0 THEN -1 ELSE 1
    IN  <<(s * n) \div g, (s * d) \div g>>

Zero == <<0, 1>>
One  == <<1, 1>>

RAdd(x, y) ==
    LET l == (x[2] \div GCD(x[2], y[2])) * y[2]
    IN  Frac(x[1] * (l \div x[2]) + y[1] * (l \div y[2]), l)
RNeg(x) == <<-x[1], x[2]>>
RSub(x, y) == RAdd(x, RNeg(y))
RMul(x, y) ==
    LET g1 == GCD(Abs(x[1]), y[2])
        g2 == GCD(Abs(y[1]), x[2])
    IN  Frac((x[1] \div g1) * (y[1] \div g2), (x[2] \div g2) * (y[2] \div g1))
RDiv(x, y) == RMul(x, Frac(y[2], y[1]))
RLeq(x, y) == x[1] * y[2] <= y[1] * x[2]
RLess(x, y) == x[1] * y[2] < y[1] * x[2]

RECURSIVE RPow(_, _)
RPow(x, e) == IF e = 0 THEN One ELSE RMul(x, RPow(x, e - 1))

\* the largest r with r * r <= n, by bisection on [lo, hi)
RECURSIVE ISqrtIn(_, _, _)
ISqrtIn(n, lo, hi) ==
    IF hi - lo <= 1 THEN lo
    ELSE LET mid == (lo + hi) \div 2
         IN  IF mid * mid <= n THEN ISqrtIn(n, mid, hi) ELSE ISqrtIn(n, lo, mid)
ISqrt(n) == ISqrtIn(n, 0, 46341)

\* Math.sqrt of a non-negative fraction: sqrt(n/d) = sqrt(n*d)/d, rounded down
\* to a multiple of 1/d; exact when n/d is the square of a fraction
RSqrt(x) == Frac(ISqrt(x[1] * x[2]), x[2])

----------------------------------------------------------------------------
(* Amplitude components: <<a, k>> is the real number a * (1/sqrt 2)^k *)

\* the one representation of a * (1/sqrt 2)^k with k >= 0 least
RECURSIVE ANorm(_, _)
ANorm(a, k) ==
    IF a = 0 THEN <<0, 0>>
    ELSE IF k >= 2 /\ a % 2 = 0 THEN ANorm(a \div 2, k - 2)
    ELSE <<a, k>>

\* x + y; the components of one state vector differ by whole powers of 2
AAdd(x, y) ==
    IF x[1] = 0 THEN y
    ELSE IF y[1] = 0 THEN x
    ELSE LET k == Max(x[2], y[2])
         IN  ANorm(x[1] * Pow(2, (k - x[2]) \div 2) + y[1] * Pow(2, (k - y[2]) \div 2), k)
ANeg(x) == <<-x[1], x[2]>>
ASub(x, y) == AAdd(x, ANeg(y))
\* x * invSqrt2, invSqrt2 = 1 / Math.sqrt(2)
AMulInvSqrt2(x) == ANorm(x[1], x[2] + 1)
\* x ** 2, a fraction: a^2 / 2^k
ASquare(x) == Frac(x[1] * x[1], Pow(2, x[2]))

AZero == <<0, 0>>
AOne  == <<1, 0>>

----------------------------------------------------------------------------
(* types.ts *)

GateType == {"H", "X", "Y", "Z", "CNOT", "I"}

NoiseType == {"Depolarizing", "Amplitude Damping", "Phase Damping", "Bit Flip", "Phase Flip"}

\* Gate.control is optional: the value of a gate that has none
Undefined == -1

\* a Gate
Gate(id, type, qubit, control, time) ==
    [id |-> id, type |-> type, qubit |-> qubit, control |-> control, time |-> time]

----------------------------------------------------------------------------
(* Bit masks on basis-state indices *)

\* 1 << q
Shl(q) == Pow(2, q)
\* (i & mask) !== 0, mask a single bit
BitSet(i, mask) == (i \div mask) % 2 = 1
\* i ^ mask, mask a single bit
Xor(i, mask) == IF BitSet(i, mask) THEN i - mask ELSE i + mask

\* newAmps with entries i and j exchanged (const temp = ...)
Swap(newAmps, i, j) == [newAmps EXCEPT ![i] = newAmps[j], ![j] = newAmps[i]]

----------------------------------------------------------------------------
(* QuantumSimulator.applyGate *)

\* the loop of the X branch, from index i on
RECURSIVE XLoop(_, _, _, _)
XLoop(newAmps, i, states, mask) ==
    IF i >= states THEN newAmps
    ELSE LET target == Xor(i, mask)
         IN  XLoop(IF i < target THEN Swap(newAmps, i, target) ELSE newAmps,
                   i + 1, states, mask)

\* the real and imaginary parts of the pair (low, high) after a Hadamard
HadamardLow(amps, low, high) ==
    [real |-> AMulInvSqrt2(AAdd(amps[low].real, amps[high].real)),
     imag |-> AMulInvSqrt2(AAdd(amps[low].imag, amps[high].imag))]
HadamardHighUnscaled(amps, low, high) ==
    [real |-> ASub(amps[low].real, amps[high].real),
     imag |-> ASub(amps[low].imag, amps[high].imag)]
HadamardHigh(amps, low, high) ==
    [real |-> AMulInvSqrt2(ASub(amps[low].real, amps[high].real)),
     imag |-> AMulInvSqrt2(ASub(amps[low].imag, amps[high].imag))]

\* the H branch with the high member computed after the low one was written:
\* a sequential update
RECURSIVE HLoopSequential(_, _, _, _, _, _)
HLoopSequential(newAmps, amplitudes, processed, i, states, mask) ==
    IF i >= states THEN newAmps
    ELSE IF i \in processed
         THEN HLoopSequential(newAmps, amplitudes, processed, i + 1, states, mask)
    ELSE LET j     == Xor(i, mask)
             isSet == BitSet(i, mask)
             low   == IF isSet THEN j ELSE i
             high  == IF isSet THEN i ELSE j
             lowWritten == [newAmps EXCEPT ![low] = HadamardLow(amplitudes, low, high)]
         IN  HLoopSequential([lowWritten EXCEPT ![high] = HadamardHigh(lowWritten, low, high)],
                             amplitudes, processed \cup {low, high}, i + 1, states, mask)

\* the loop of the H branch, from index i on: reads amplitudes, writes newAmps
RECURSIVE HLoop(_, _, _, _, _, _)
HLoop(newAmps, amplitudes, processed, i, states, mask) ==
    IF i >= states THEN newAmps
    ELSE IF i \in processed
         THEN HLoop(newAmps, amplitudes, processed, i + 1, states, mask)
    ELSE LET j     == Xor(i, mask)
             isSet == BitSet(i, mask)
             low   == IF isSet THEN j ELSE i
             high  == IF isSet THEN i ELSE j
         IN  HLoop([newAmps EXCEPT ![low]  = HadamardLow(amplitudes, low, high),
                                   ![high] = HadamardHigh(amplitudes, low, high)],
                   amplitudes, processed \cup {low, high}, i + 1, states, mask)

\* the pairs <<low, high>> the loop of the H branch handles, in order, from index
\* i on
RECURSIVE HVisits(_, _, _, _)
HVisits(processed, i, states, mask) ==
    IF i >= states THEN <<>>
    ELSE IF i \in processed THEN HVisits(processed, i + 1, states, mask)
    ELSE LET j     == Xor(i, mask)
             isSet == BitSet(i, mask)
             low   == IF isSet THEN j ELSE i
             high  == IF isSet THEN i ELSE j
         IN  <<(<<low, high>>)>> \o HVisits(processed \cup {low, high}, i + 1, states, mask)

\* a CNOT that ignores its control
CNOTIgnoringControl(newAmps, i, states, controlMask, targetMask) ==
    XLoop(newAmps, i, states, targetMask)

\* the loop of the CNOT branch, from index i on
RECURSIVE CNOTLoop(_, _, _, _, _)
CNOTLoop(newAmps, i, states, controlMask, targetMask) ==
    IF i >= states THEN newAmps
    ELSE LET target == Xor(i, targetMask)
         IN  CNOTLoop(IF BitSet(i, controlMask) /\ i < target
                          THEN Swap(newAmps, i, target) ELSE newAmps,
                      i + 1, states, controlMask, targetMask)

\* amplitudes.length of a vector indexed 0 .. length-1
Length(v) == Cardinality(DOMAIN v)

\* a CNOT branch entered without the test of gate.control: 1 << undefined is 1
ApplyGateCoercingControl(amplitudes, gate) ==
    LET newAmps == amplitudes
        states  == Length(amplitudes)
        control == IF gate.control = Undefined THEN 0 ELSE gate.control
    IN  IF gate.type = "X"
            THEN XLoop(newAmps, 0, states, Shl(gate.qubit))
        ELSE IF gate.type = "H"
            THEN HLoop(newAmps, amplitudes, {}, 0, states, Shl(gate.qubit))
        ELSE IF gate.type = "CNOT"
            THEN CNOTLoop(newAmps, 0, states, Shl(control), Shl(gate.qubit))
        ELSE newAmps

ApplyGate(amplitudes, gate) ==
    LET newAmps == amplitudes
        states  == Length(amplitudes)
    IN  IF gate.type = "X"
            THEN XLoop(newAmps, 0, states, Shl(gate.qubit))
        ELSE IF gate.type = "H"
            THEN HLoop(newAmps, amplitudes, {}, 0, states, Shl(gate.qubit))
        ELSE IF gate.type = "CNOT" /\ gate.control # Undefined
            THEN CNOTLoop(newAmps, 0, states, Shl(gate.control), Shl(gate.qubit))
        ELSE newAmps

----------------------------------------------------------------------------
(* QuantumSimulator.applyNoiseModel *)

\* the factors 0.4 and 0.8 of the bit-flip and amplitude-damping branches
FlipFactor  == Frac(2, 5)
DecayFactor == Frac(4, 5)

\* 1 - Math.pow(1 - p, gateCount): no floor of 1 on the depth
TotalErrorNoFloor(p, gateCount) == RSub(One, RPow(RSub(One, p), gateCount))

\* 1 - Math.pow(1 - p, Math.max(1, gateCount))
TotalError(p, gateCount) == RSub(One, RPow(RSub(One, p), Max(1, gateCount)))

\* the weights exchanged
BlendSwapped(val, uniform, totalError) ==
    RAdd(RMul(val, totalError), RMul(uniform, RSub(One, totalError)))
\* the uniform term left out
BlendNoUniform(val, uniform, totalError) == RMul(val, RSub(One, totalError))

\* val * (1 - totalError) + uniform * totalError
Blend(val, uniform, totalError) ==
    RAdd(RMul(val, RSub(One, totalError)), RMul(uniform, totalError))

\* the loop of the bit-flip branch, from index i on: it updates result in place
RECURSIVE BitFlipLoop(_, _, _, _)
BitFlipLoop(res, i, states, flipAmount) ==
    IF i >= states THEN res
    ELSE LET flipped == (states - 1) - i
         IN  BitFlipLoop(
                 [res EXCEPT ![i] = RAdd(RMul(res[i], RSub(One, flipAmount)),
                                         RMul(res[flipped], flipAmount))],
                 i + 1, states, flipAmount)

\* the amplitude-damping branch with the scaling loop started at index 0
DampFromZero(res, states, decay) ==
    [i \in 0 .. states - 1 |->
        IF i = 0 THEN RMul(RAdd(res[0], RMul(RSub(One, res[0]), decay)), RSub(One, decay))
        ELSE RMul(res[i], RSub(One, decay))]

\* the amplitude-damping branch
Damp(res, states, decay) ==
    [i \in 0 .. states - 1 |->
        IF i = 0 THEN RAdd(res[0], RMul(RSub(One, res[0]), decay))
        ELSE RMul(res[i], RSub(One, decay))]

\* the branches without the final else: any other tag leaves the vector as it is
PerturbWithoutFallback(ideal, noiseCfg, gateCount) ==
    LET p          == noiseCfg.probability
        states     == Length(ideal)
        totalError == TotalError(p, gateCount)
    IN  IF noiseCfg.type = "Depolarizing"
            THEN [i \in 0 .. states - 1 |-> Blend(ideal[i], Frac(1, states), totalError)]
        ELSE IF noiseCfg.type = "Bit Flip"
            THEN BitFlipLoop(ideal, 0, states, RMul(totalError, FlipFactor))
        ELSE IF noiseCfg.type = "Amplitude Damping"
            THEN Damp(ideal, states, RMul(totalError, DecayFactor))
        ELSE ideal

\* the vector before the final renormalisation
Perturb(ideal, noiseCfg, gateCount) ==
    LET p          == noiseCfg.probability
        states     == Length(ideal)
        totalError == TotalError(p, gateCount)
    IN  IF noiseCfg.type = "Depolarizing"
            THEN [i \in 0 .. states - 1 |-> Blend(ideal[i], Frac(1, states), totalError)]
        ELSE IF noiseCfg.type = "Bit Flip"
            THEN BitFlipLoop(ideal, 0, states, RMul(totalError, FlipFactor))
        ELSE IF noiseCfg.type = "Amplitude Damping"
            THEN Damp(ideal, states, RMul(totalError, DecayFactor))
        ELSE [i \in 0 .. states - 1 |-> Blend(ideal[i], Frac(1, states), totalError)]

\* sum of a vector indexed 0 .. n-1: result.reduce((a, b) => a + b, 0)
RECURSIVE SumFrom(_, _, _)
SumFrom(v, i, n) == IF i >= n THEN Zero ELSE RAdd(v[i], SumFrom(v, i + 1, n))
Sum(v) == SumFrom(v, 0, Length(v))

\* no renormalisation
NoRenormalize(res) == res

\* result.map(v => v / (sum || 1))
Renormalize(res) ==
    LET sum     == Sum(res)
        divisor == IF sum = Zero THEN One ELSE sum
    IN  [i \in DOMAIN res |-> RDiv(res[i], divisor)]

ApplyNoiseModel(ideal, noiseCfg, gateCount) ==
    Renormalize(Perturb(ideal, noiseCfg, gateCount))

----------------------------------------------------------------------------
(* QuantumSimulator.calculateFidelity *)

RECURSIVE Overlap(_, _, _)
Overlap(ideal, noisy, i) ==
    IF i >= Length(ideal) THEN Zero
    ELSE RAdd(RSqrt(RMul(ideal[i], noisy[i])), Overlap(ideal, noisy, i + 1))

\* Math.min(1, x)
Min1(x) == IF RLeq(One, x) THEN One ELSE x

\* the fidelity as a percentage
FidelityPercent(ideal, noisy) ==
    LET overlap == Overlap(ideal, noisy, 0)
        percent == RMul(RMul(overlap, overlap), <<100, 1>>)
    IN  IF RLeq(<<100, 1>>, percent) THEN <<100, 1>> ELSE percent

CalculateFidelity(ideal, noisy) ==
    LET overlap == Overlap(ideal, noisy, 0)
    IN  Min1(RMul(overlap, overlap))

----------------------------------------------------------------------------
(* QuantumSimulator.toDict *)

\* i.toString(2): the binary digits of i, most significant first
RECURSIVE ToString2(_)
ToString2(i) ==
    IF i < 2 THEN <<IF i = 0 THEN "0" ELSE "1">>
    ELSE Append(ToString2(i \div 2), IF i % 2 = 0 THEN "0" ELSE "1")

\* s.padStart(n, '0')
RECURSIVE PadStart(_, _)
PadStart(s, n) == IF Len(s) >= n THEN s ELSE PadStart(<<"0">> \o s, n)

BitString(i, n) == PadStart(ToString2(i), n)

\* the record built by probs.forEach: a later index overwrites an earlier one
ToDict(probs, n) ==
    LET states == Length(probs)
        keys   == {BitString(i, n) : i \in 0 .. states - 1}
        last(k) == CHOOSE i \in 0 .. states - 1 :
                       /\ BitString(i, n) = k
                       /\ \A j \in 0 .. states - 1 : BitString(j, n) = k => j <= i
    IN  [k \in keys |-> probs[last(k)]]

----------------------------------------------------------------------------
(* QuantumSimulator.simulate *)

\* a sort that leaves the list as it is
KeepOrder(gs) == gs

\* sorted with gate g put behind the last gate whose time is not larger
RECURSIVE InsertByTime(_, _)
InsertByTime(sorted, g) ==
    IF sorted = <<>> THEN <<g>>
    ELSE IF sorted[Len(sorted)].time - g.time <= 0 THEN Append(sorted, g)
    ELSE Append(InsertByTime(SubSeq(sorted, 1, Len(sorted) - 1), g), sorted[Len(sorted)])

\* Array.prototype.sort((a, b) => a.time - b.time): stable, ascending
RECURSIVE SortByTime(_)
SortByTime(gs) ==
    IF gs = <<>> THEN <<>>
    ELSE InsertByTime(SortByTime(SubSeq(gs, 1, Len(gs) - 1)), gs[Len(gs)])

\* the caller's array after [...gates].sort(...): the copy is sorted, not the array
SpreadKeeps(gs) == gs

\* new Array(states).fill(0).map(...) with entry 0 set to 1
InitialAmplitudes(states) ==
    [i \in 0 .. states - 1 |->
        IF i = 0 THEN [real |-> AOne, imag |-> AZero] ELSE [real |-> AZero, imag |-> AZero]]

\* amplitudes kept from the last invocation
StaleAmplitudes(states, previous) ==
    IF previous = None THEN InitialAmplitudes(states) ELSE previous

\* the amplitudes an invocation starts from: a fresh local, whatever the last left
FreshAmplitudes(states, previous) == InitialAmplitudes(states)

\* idealAmplitudes.map(amp => amp.real ** 2 + amp.imag ** 2)
Probabilities(amps) == [i \in DOMAIN amps |-> RAdd(ASquare(amps[i].real), ASquare(amps[i].imag))]

\* the SimulationResult built from the final amplitudes
SimulationResult(amps, gs, noiseCfg, n) ==
    LET idealProbs == Probabilities(amps)
        noisyDist  == ApplyNoiseModel(idealProbs, noiseCfg, Len(gs))
    IN  [probabilities      |-> ToDict(idealProbs, n),
         noisyProbabilities |-> ToDict(noisyDist, n),
         fidelity           |-> CalculateFidelity(idealProbs, noisyDist),
         qubitCount         |-> n]

\* lines 15-21: the sorted copy and the initial state vector
SimEnter ==
    /\ pc' = "loop"
    /\ sortedGates' = SortByTime(gates)
    /\ gates' = SpreadKeeps(gates)
    /\ idealAmplitudes' = FreshAmplitudes(Pow(2, numQubits), idealAmplitudes)
    /\ idx' = 1
    /\ history' = <<>>
    /\ result' = None
    /\ UNCHANGED <<numQubits, noise, firstResult, callerGates, calls, outside>>

\* the caller invokes simulate(gates, noise)
SimCall ==
    /\ pc = "idle"
    /\ SimEnter

\* the caller invokes simulate a second time, with the same arguments
SimCallAgain ==
    /\ pc = "done"
    /\ calls < 2
    /\ SimEnter

\* one iteration of the for-of loop: lines 24-26
SimApply ==
    /\ pc = "loop"
    /\ idx <= Len(sortedGates)
    /\ idealAmplitudes' = ApplyGate(idealAmplitudes, sortedGates[idx])
    /\ history' = Append(history, idealAmplitudes')
    /\ idx' = idx + 1
    /\ UNCHANGED <<numQubits, gates, noise, pc, sortedGates, result, firstResult,
                   callerGates, calls, outside>>

\* the rest of the body: lines 28-39
SimReturn ==
    /\ pc = "loop"
    /\ idx > Len(sortedGates)
    /\ result' = SimulationResult(idealAmplitudes, gates, noise, numQubits)
    /\ firstResult' = IF calls = 0 THEN result' ELSE firstResult
    /\ calls' = calls + 1
    /\ pc' = "done"
    /\ UNCHANGED <<numQubits, gates, noise, sortedGates, idx, idealAmplitudes,
                   history, callerGates, outside>>

\* a direct call of applyNoiseModel(ideal, noise, gateCount)
NoiseCall ==
    /\ retNoisy = None
    /\ retNoisy' = ApplyNoiseModel(argIdeal, noise, argGateCount)
    /\ UNCHANGED <<simVars, noise, argIdeal, argGateCount, gateVars, insightVars, hostVars>>

\* a direct call of applyGate(amplitudes, gate)
GateCall ==
    /\ argAmplitudes # None
    /\ retAmplitudes = None
    /\ retAmplitudes' = ApplyGate(argAmplitudes, argGate)
    /\ UNCHANGED <<simVars, noise, noiseVars, argAmplitudes, argGate, insightVars,
                   hostVars>>

----------------------------------------------------------------------------
(* getQuantumInsights *)

\* (x).toFixed(2) of a non-negative fraction, in hundredths, rounded half up
ToFixed2(x) == (2 * 100 * x[1] + x[2]) \div (2 * x[2])

\* what the template literal reads of its arguments
Prompt(gs, noiseCfg, res) ==
    [gates       |-> [i \in 1 .. Len(gs) |-> [type |-> gs[i].type, qubit |-> gs[i].qubit]],
     noiseType   |-> noiseCfg.type,
     probability |-> noiseCfg.probability,
     fidelity    |-> ToFixed2(RMul(res.fidelity, <<100, 1>>))]

UnableMessage == "I was unable to analyze the circuit at this time."
ErrorMessage  == "Error connecting to the quantum analysis engine. Please try again later."

\* a || b on an optional string: <<>> is undefined, <<"">> the empty string
OrElse(text, fallback) == IF text = <<>> \/ text[1] = "" THEN fallback ELSE text[1]

\* the body without its catch clause: a rejection of the service reaches the caller
SettleWithoutCatch(outcome) ==
    IF outcome.kind = "rejected"
        THEN [pc |-> "rejected", value |-> <<>>]
        ELSE [pc |-> "resolved", value |-> <<OrElse(outcome.text, UnableMessage)>>]

\* how the invocation settles for an outcome of ai.models.generateContent
Settle(outcome) ==
    IF outcome.kind = "rejected"
        THEN [pc |-> "resolved", value |-> <<ErrorMessage>>]
        ELSE [pc |-> "resolved", value |-> <<OrElse(outcome.text, UnableMessage)>>]

\* the outcomes of the service: a response with a text, with an empty text, with
\* no text, and a rejection
ServiceOutcomes ==
    {[kind |-> "fulfilled", text |-> t] :
        t \in {<<"Depolarizing noise acts on every gate.">>, <<"">>, <<>>}}
    \cup {[kind |-> "rejected", text |-> <<>>]}

\* getQuantumInsights(gates, noise, results) up to its await: lines 11-27
InsightCall ==
    /\ pc = "done"
    /\ insightPc = "idle"
    /\ insightRequest' = Prompt(gates, noise, result)
    /\ insightPc' = "awaiting"
    /\ UNCHANGED <<simVars, noise, noiseVars, gateVars, insightReturn, hostVars>>

\* the service settles and the invocation with it: lines 27-35
InsightSettle ==
    /\ insightPc = "awaiting"
    /\ \E outcome \in ServiceOutcomes :
           /\ insightPc' = Settle(outcome).pc
           /\ insightReturn' = Settle(outcome).value
    /\ UNCHANGED <<simVars, noise, noiseVars, gateVars, insightRequest, hostVars>>

----------------------------------------------------------------------------
(* Inputs *)

\* the longest gate list
MaxGates == 2
\* the qubit count of the host's simulator, the largest the simulator supports
MAX_QUBITS == 3
\* ideal distributions have entries k / Grain
Grain == 4
\* the largest gateCount of a direct call of applyNoiseModel
MaxGateCount == 2

\* qubit counts of the simulators constructed
QubitCounts == {1, 2}

\* time steps of the gates of an unordered list
TimeSteps == {0, 1}

\* noise.probability, in [0, 1]
ProbabilityValues == {Zero, Frac(1, 2), One}

NoiseConfigs == [type : NoiseType, probability : ProbabilityValues]

\* NoiseType and a tag outside it
NoiseTags == NoiseType \cup {"Unknown"}

\* the gates on n qubits at the time steps T, without their ids; a CNOT carries a
\* control in [0, n)
GateShapes(n, T) ==
    {Gate(0, t, q, Undefined, tm) : t \in GateType \ {"CNOT"}, q \in 0 .. n - 1, tm \in T}
    \cup {Gate(0, "CNOT", q, c, tm) : q \in 0 .. n - 1, c \in 0 .. n - 1, tm \in T}

\* the gate lists of length len on n qubits, in any order of time steps;
\* ids are 1, 2, ... in list order
GateLists(n, len) ==
    {[i \in 1 .. len |-> [f[i] EXCEPT !.id = i]] : f \in [1 .. len -> GateShapes(n, TimeSteps)]}

\* the gate lists of length len on n qubits with gate i at time step i - 1
OrderedGateLists(n, len) ==
    {[i \in 1 .. len |-> [f[i] EXCEPT !.id = i, !.time = i - 1]] :
        f \in [1 .. len -> GateShapes(n, {0})]}

\* H on qubit 0, then CNOT(target k+1, control k) for k = 0 .. n-2, at time steps 0, 1, ...
Chain(n) ==
    [i \in 1 .. n |->
        IF i = 1 THEN Gate(1, "H", 0, Undefined, 0) ELSE Gate(i, "CNOT", i - 1, i - 2, i - 1)]

\* GateShapes and the CNOTs that carry no control
AllGateShapes(n, T) ==
    GateShapes(n, T) \cup {Gate(0, "CNOT", q, Undefined, tm) : q \in 0 .. n - 1, tm \in T}

\* the longest circuit on one target qubit
MaxTargetGates == 3

\* the circuits of length len on n qubits whose gates all act on target q, a
\* CNOT among them carrying no control; gate i at time step i - 1
TargetCircuits(n, q, len) ==
    {[i \in 1 .. len |-> [f[i] EXCEPT !.id = i, !.time = i - 1]] :
        f \in [1 .. len -> {g \in AllGateShapes(n, {0}) :
                               g.qubit = q /\ g.control = Undefined}]}

\* the amplitudes 0, 1, i and -1
ComplexValues ==
    {[real |-> AZero, imag |-> AZero], [real |-> AOne, imag |-> AZero],
     [real |-> AZero, imag |-> AOne], [real |-> ANeg(AOne), imag |-> AZero]}

\* the state vectors of length states with entries in ComplexValues
StateVectors(states) == [0 .. states - 1 -> ComplexValues]

\* the distributions on 0 .. states-1 with entries k / Grain
Distributions(states) ==
    {[i \in 0 .. states - 1 |-> Frac(f[i], Grain)] :
        f \in {g \in [0 .. states - 1 -> 0 .. Grain] : Sum([i \in 0 .. states - 1 |-> <<g[i], 1>>]) = <<Grain, 1>>}}

SimIdle ==
    /\ pc = "idle"
    /\ sortedGates = <<>>
    /\ idx = 0
    /\ idealAmplitudes = <<>>
    /\ result = None
    /\ history = <<>>
    /\ firstResult = None
    /\ callerGates = gates
    /\ calls = 0

\* no App mounted
NoHost ==
    /\ results = None
    /\ loading = FALSE
    /\ insights = ""
    /\ effectPending = FALSE
    /\ inflight = <<>>
    /\ superseded = FALSE

\* getQuantumInsights not called
NoInsightCall ==
    /\ insightPc = "idle"
    /\ insightRequest = None
    /\ insightReturn = <<>>

\* no direct call of applyGate
NoGateCall ==
    /\ argAmplitudes = None
    /\ argGate = None
    /\ retAmplitudes = None

NoDirectCall ==
    /\ argIdeal = None
    /\ argGateCount = 0
    /\ retNoisy = None
    /\ NoGateCall
    /\ NoInsightCall
    /\ NoHost

\* simulators on any gate list, under the host's initial noise kind
Init ==
    /\ numQubits \in QubitCounts
    /\ \E len \in 0 .. MaxGates : gates \in GateLists(numQubits, len)
    /\ noise = [type |-> "Depolarizing", probability |-> Frac(1, 2)]
    /\ SimIdle
    /\ NoDirectCall

Next == SimCall \/ SimApply \/ SimReturn \/ SimCallAgain

Spec == Init /\ [][Next]_vars

\* simulators on time-ordered gate lists, under every noise configuration
FidelityInit ==
    /\ numQubits \in QubitCounts
    /\ \E len \in 0 .. MaxGates : gates \in OrderedGateLists(numQubits, len)
    /\ noise \in NoiseConfigs
    /\ SimIdle
    /\ NoDirectCall

OneCallNext == SimCall \/ SimApply \/ SimReturn

FidelitySpec == FidelityInit /\ [][OneCallNext]_vars

\* simulators on the Hadamard-CNOT chains of 2 .. MAX_QUBITS qubits
ChainInit ==
    /\ numQubits \in 2 .. MAX_QUBITS
    /\ gates = Chain(numQubits)
    /\ noise \in NoiseConfigs
    /\ SimIdle
    /\ NoDirectCall

ChainSpec == ChainInit /\ [][OneCallNext]_vars

\* direct calls of applyGate, and simulators on circuits on one target qubit
GateInit ==
    /\ numQubits \in QubitCounts
    /\ noise = [type |-> "Depolarizing", probability |-> Frac(1, 2)]
    /\ \/ /\ gates = <<>>
          /\ argAmplitudes \in StateVectors(Pow(2, numQubits))
          /\ argGate \in AllGateShapes(numQubits, {0})
          /\ retAmplitudes = None
       \/ /\ \E q \in 0 .. numQubits - 1, len \in 1 .. MaxTargetGates :
                 gates \in TargetCircuits(numQubits, q, len)
          /\ NoGateCall
    /\ SimIdle
    /\ argIdeal = None
    /\ argGateCount = 0
    /\ retNoisy = None
    /\ NoInsightCall
    /\ NoHost

GateNext == GateCall \/ SimCall \/ SimApply \/ SimReturn

GateSpec == GateInit /\ [][GateNext]_vars

\* the circuit loadPreset builds for a name
Preset(name) ==
    IF name = "bell"
        THEN <<Gate(1, "H", 0, Undefined, 0), Gate(2, "CNOT", 1, 0, 1)>>
    ELSE IF name = "ghz"
        THEN <<Gate(1, "H", 0, Undefined, 0), Gate(2, "CNOT", 1, 0, 1),
               Gate(3, "CNOT", 2, 1, 2)>>
    ELSE <<Gate(1, "H", 0, Undefined, 0), Gate(2, "H", 1, Undefined, 0),
           Gate(3, "H", 2, Undefined, 0)>>

PresetNames == {"bell", "ghz", "superposition"}

\* the host's simulator on the empty circuit and on the presets, and calls of
\* getQuantumInsights on what it returned
InsightInit ==
    /\ numQubits = MAX_QUBITS
    /\ gates \in {<<>>} \cup {Preset(name) : name \in PresetNames}
    /\ noise \in NoiseConfigs
    /\ SimIdle
    /\ NoDirectCall

InsightNext == SimCall \/ SimApply \/ SimReturn \/ InsightCall \/ InsightSettle

InsightSpec == InsightInit /\ [][InsightNext]_vars

\* direct calls of applyNoiseModel
NoiseInit ==
    /\ numQubits \in QubitCounts
    /\ gates = <<>>
    /\ SimIdle
    /\ argIdeal \in Distributions(Pow(2, numQubits))
    /\ noise \in [type : NoiseTags, probability : ProbabilityValues]
    /\ argGateCount \in 0 .. MaxGateCount
    /\ retNoisy = None
    /\ NoGateCall
    /\ NoInsightCall
    /\ NoHost

NoiseNext == NoiseCall

NoiseSpec == NoiseInit /\ [][NoiseNext]_vars

----------------------------------------------------------------------------
(* Properties *)

\* s is gs in non-decreasing time order, gates of equal time in the order of gs
IsStableSortOf(s, gs) ==
    /\ Len(s) = Len(gs)
    /\ {s[i].id : i \in 1 .. Len(s)} = 1 .. Len(gs)
    /\ \A i \in 1 .. Len(s) : s[i] = gs[s[i].id]
    /\ \A i, j \in 1 .. Len(s) :
         i < j => \/ s[i].time < s[j].time
                  \/ s[i].time = s[j].time /\ s[i].id < s[j].id

\* amps after the first k gates of gs, one by one
RECURSIVE ApplyAll(_, _, _)
ApplyAll(amps, gs, k) ==
    IF k = 0 THEN amps ELSE ApplyGate(ApplyAll(amps, gs, k - 1), gs[k])

\* the sum of the values of a dictionary over the keys ks
RECURSIVE SumOver(_, _)
SumOver(d, ks) ==
    IF ks = {} THEN Zero
    ELSE LET k == CHOOSE x \in ks : TRUE IN RAdd(d[k], SumOver(d, ks \ {k}))

Running == pc \in {"loop", "done"}
Done == pc = "done"

\* C1: simulate applies the gates in non-decreasing time order, equal times in
\* input order: the list it walks is the stable rearrangement of the caller's
\* list, the gates applied so far are a prefix of it, and the amplitudes are
\* those of applying that prefix (at the end, all of it) gate by gate to the
\* all-zero basis state.
C1_AppliedInStableTimeOrder ==
    Running =>
        /\ IsStableSortOf(sortedGates, callerGates)
        /\ Len(history) = idx - 1
        /\ idealAmplitudes =
               ApplyAll(InitialAmplitudes(Pow(2, numQubits)), sortedGates, idx - 1)
        /\ Done => idx - 1 = Len(callerGates)

\* a finished run on a list given out of time order, with two gates of one time
\* step, where applying the gates in list order would have ended elsewhere
C1_Witness ==
    /\ Done
    /\ \E i, j \in 1 .. Len(callerGates) : i < j /\ callerGates[i].time > callerGates[j].time
    /\ idealAmplitudes #
           ApplyAll(InitialAmplitudes(Pow(2, numQubits)), callerGates, Len(callerGates))

\* C2: every applyGate step keeps the sum of squared magnitudes at 1, and the
\* ideal probabilities simulate returns sum to 1 (gate kinds H, X, Y, Z, CNOT, I,
\* target and control in [0, N)).
C2_GatesPreserveTotalProbability ==
    /\ \A k \in 1 .. Len(history) : Sum(Probabilities(history[k])) = One
    /\ Done => SumOver(result.probabilities, DOMAIN result.probabilities) = One

\* a finished run whose last gate was a Hadamard acting on a superposition
C2_Witness ==
    /\ Done
    /\ Len(history) = 2
    /\ sortedGates[1].type = "H"
    /\ sortedGates[2].type = "H"
    /\ sortedGates[2].qubit # sortedGates[1].qubit
    /\ \A k \in DOMAIN result.probabilities : result.probabilities[k] = Frac(1, 4)

\* C3: the distribution applyNoiseModel returns has non-negative entries that
\* sum to 1, for every noise tag, probability, gate count and ideal distribution.
C3_NoisyIsADistribution ==
    retNoisy # None =>
        /\ \A i \in DOMAIN retNoisy : RLeq(Zero, retNoisy[i])
        /\ Sum(retNoisy) = One

\* a call whose perturbed vector did not sum to 1 before the renormalisation
C3_Witness ==
    /\ retNoisy # None
    /\ Sum(Perturb(argIdeal, noise, argGateCount)) # One

\* C4: the fidelity simulate returns lies in [0, 1].
C4_FidelityInUnitInterval ==
    Done => RLeq(Zero, result.fidelity) /\ RLeq(result.fidelity, One)

\* a finished run with a fidelity strictly inside the interval
C4_Witness ==
    /\ Done
    /\ Len(gates) > 0
    /\ RLess(Zero, result.fidelity)
    /\ RLess(result.fidelity, One)

\* C5 as stated: the fidelity is 1 exactly when the probability is 0 or the
\* circuit is empty.
C5_FidelityOneIffNoErrorOrEmpty ==
    Done => (result.fidelity = One <=> (noise.probability = Zero \/ Len(gates) = 0))

\* C5, amended: totalError is 0 exactly when the probability is 0 (an empty
\* circuit counts as depth 1); then the fidelity is 1, for every gate count; an
\* empty circuit under Depolarizing noise of probability > 0 has fidelity < 1.
C5_FidelityOneWhenProbabilityZero ==
    Done =>
        /\ TotalError(noise.probability, Len(gates)) = Zero <=> noise.probability = Zero
        /\ noise.probability = Zero => result.fidelity = One
        /\ (Len(gates) = 0 /\ noise.type = "Depolarizing" /\ noise.probability # Zero)
               => RLess(result.fidelity, One)

\* a finished run of a non-empty circuit with a Hadamard, at probability 0
C5_Witness ==
    /\ Done
    /\ noise.probability = Zero
    /\ \E i \in 1 .. Len(gates) : gates[i].type = "H"
    /\ result.fidelity = One

\* the labels of n bits that are all the character c
AllChar(n, c) == [i \in 1 .. n |-> c]

\* C6: H on qubit 0 followed by the chain of CNOTs gives the all-zeros and the
\* all-ones label 0.5 each and every other N-bit label 0; for N = 2 that is
\* {"00": 0.5, "01": 0, "10": 0, "11": 0.5}.
C6_ChainGivesHalfZerosHalfOnes ==
    Done =>
        /\ result.probabilities =
               [k \in [1 .. numQubits -> {"0", "1"}] |->
                   IF k \in {AllChar(numQubits, "0"), AllChar(numQubits, "1")}
                       THEN Frac(1, 2) ELSE Zero]
        /\ numQubits = 2 =>
               /\ result.probabilities[<<"0", "0">>] = Frac(1, 2)
               /\ result.probabilities[<<"0", "1">>] = Zero
               /\ result.probabilities[<<"1", "0">>] = Zero
               /\ result.probabilities[<<"1", "1">>] = Frac(1, 2)

\* the finished three-qubit chain
C6_Witness ==
    /\ Done
    /\ numQubits = 3
    /\ Len(history) = 3
    /\ result.probabilities[<<"1", "1", "1">>] = Frac(1, 2)

\* C7: Depolarizing noise of probability 0 returns the ideal distribution, entry
\* by entry, for every gate count.
C7_DepolarizingZeroKeepsIdeal ==
    (retNoisy # None /\ noise.type = "Depolarizing" /\ noise.probability = Zero)
        => retNoisy = argIdeal

\* such a call on a distribution that is not uniform, at a positive gate count
C7_Witness ==
    /\ retNoisy # None
    /\ noise.type = "Depolarizing"
    /\ noise.probability = Zero
    /\ argGateCount > 0
    /\ argIdeal[0] = One
    /\ retNoisy[0] = One

\* C8: Depolarizing noise of probability 1 at gate count >= 1 has totalError 1
\* and returns the uniform distribution 1/2^N.
C8_DepolarizingOneGivesUniform ==
    (retNoisy # None /\ noise.type = "Depolarizing" /\ noise.probability = One
        /\ argGateCount >= 1)
        => /\ TotalError(noise.probability, argGateCount) = One
           /\ \A i \in DOMAIN retNoisy : retNoisy[i] = Frac(1, Length(argIdeal))

\* such a call on a basis-state distribution of two qubits
C8_Witness ==
    /\ retNoisy # None
    /\ noise.type = "Depolarizing"
    /\ noise.probability = One
    /\ argGateCount >= 1
    /\ Length(argIdeal) = 4
    /\ argIdeal[0] = One
    /\ retNoisy[3] = Frac(1, 4)

\* v read from the far end: P'[i] = P[S-1-i]
Reversed(v) == [i \in DOMAIN v |-> v[(Length(v) - 1) - i]]

\* C9: Bit Flip noise commutes with reversal: the result for the reversed
\* distribution is the reversal of the result.
C9_BitFlipCommutesWithReversal ==
    (retNoisy # None /\ noise.type = "Bit Flip")
        => ApplyNoiseModel(Reversed(argIdeal), noise, argGateCount) = Reversed(retNoisy)

\* C10: an invocation leaves the caller's gate list, the noise configuration and
\* the simulator's qubit count as they were, and the second invocation on the
\* same arguments returns what the first returned.
C10_SimulateIsPure ==
    [][/\ gates' = gates
       /\ noise' = noise
       /\ numQubits' = numQubits
       /\ calls' = 2 => result' = firstResult']_vars

\* a second invocation finished, on a list given out of time order holding a
\* Hadamard
C10_Witness ==
    /\ Done
    /\ calls = 2
    /\ result = firstResult
    /\ \E i, j \in 1 .. Len(gates) : i < j /\ gates[i].time > gates[j].time
    /\ \E i \in 1 .. Len(gates) : gates[i].type = "H"

\* gate g is a CNOT that carries no control
Malformed(g) == g.type = "CNOT" /\ g.control = Undefined

\* the amplitudes before step k of the running invocation
Before(k) == IF k = 1 THEN InitialAmplitudes(Pow(2, numQubits)) ELSE history[k - 1]

\* C11: a CNOT without a control is a no-op: applyGate returns amplitudes equal
\* to its input for every state vector and target qubit, and an invocation of
\* simulate on a list holding such a gate walks the whole list and returns a
\* result whose probabilities sum to 1 and whose fidelity lies in [0, 1].
C11_CnotWithoutControlIsNoOp ==
    /\ (retAmplitudes # None /\ Malformed(argGate)) => retAmplitudes = argAmplitudes
    /\ \A k \in 1 .. Len(history) : Malformed(sortedGates[k]) => history[k] = Before(k)
    /\ (Done /\ \E k \in 1 .. Len(gates) : Malformed(gates[k])) =>
           /\ Len(history) = Len(gates)
           /\ SumOver(result.probabilities, DOMAIN result.probabilities) = One
           /\ SumOver(result.noisyProbabilities, DOMAIN result.noisyProbabilities) = One
           /\ RLeq(Zero, result.fidelity) /\ RLeq(result.fidelity, One)

\* a finished run on two qubits where a CNOT without a control came after a
\* Hadamard, on a state in superposition
C11_Witness ==
    /\ Done
    /\ numQubits = 2
    /\ result # None
    /\ \E k \in 2 .. Len(history) :
           /\ Malformed(sortedGates[k])
           /\ sortedGates[k - 1].type = "H"
           /\ history[k] = history[k - 1]
           /\ history[k] # InitialAmplitudes(4)

\* C12: getQuantumInsights never fails towards its caller: whatever the service
\* does (a text, an empty text, no text, a rejection) the invocation resolves,
\* to a non-empty string that is the service's text or a placeholder message,
\* and no step of it changes the gates, the noise configuration or the result
\* it was given.
C12_InsightsNeverFail ==
    [][/\ insightPc' # "rejected"
       /\ insightPc' = "resolved" =>
              /\ Len(insightReturn') = 1
              /\ insightReturn'[1] # ""
              /\ \/ insightReturn'[1] \in {UnableMessage, ErrorMessage}
                 \/ [kind |-> "fulfilled", text |-> insightReturn'] \in ServiceOutcomes
       /\ insightPc' # insightPc =>
              (gates' = gates /\ noise' = noise /\ result' = result)]_vars

\* an invocation that resolved to the connection-error placeholder
C12_Witness ==
    /\ insightPc = "resolved"
    /\ insightReturn = <<ErrorMessage>>
    /\ Len(gates) = 3
    /\ result # None

\* C13: under Bit Flip noise every entry of the vector before renormalisation
\* is computed from the original ideal vector,
\* ideal[i] * (1 - flipAmount) + ideal[S-1-i] * flipAmount with flipAmount =
\* 0.4 * totalError, so that the sum before renormalisation is the ideal sum.
C13_BitFlipBlendsOriginalVector ==
    (retNoisy # None /\ noise.type = "Bit Flip") =>
        LET states     == Length(argIdeal)
            flipAmount == RMul(TotalError(noise.probability, argGateCount), FlipFactor)
            before     == Perturb(argIdeal, noise, argGateCount)
        IN  /\ \A i \in 0 .. states - 1 :
                   before[i] = RAdd(RMul(argIdeal[i], RSub(One, flipAmount)),
                                    RMul(argIdeal[(states - 1) - i], flipAmount))
            /\ Sum(before) = Sum(argIdeal)

\* the amplitude -a
Negated(a) == [real |-> ANeg(a.real), imag |-> ANeg(a.imag)]

\* amps with the amplitude of every basis state whose bit q is 1 negated
SignFlipped(amps, q) ==
    [i \in DOMAIN amps |-> IF BitSet(i, Shl(q)) THEN Negated(amps[i]) ELSE amps[i]]

\* the gates of the invocation are the types ts, in this order, all on qubit q
IsCircuitOn(ts, q) ==
    /\ Len(gates) = Len(ts)
    /\ \A k \in 1 .. Len(ts) : gates[k].type = ts[k] /\ gates[k].qubit = q

\* C14: a PauliZ gate on qubit q negates the amplitude of every basis state
\* whose bit q is 1 and leaves the others as they are; H(q), Z(q), H(q) on the
\* all-zero state gives probability 1 to the basis state with only bit q set.
C14_PauliZFlipsSign ==
    /\ (retAmplitudes # None /\ argGate.type = "Z")
           => retAmplitudes = SignFlipped(argAmplitudes, argGate.qubit)
    /\ \A k \in 1 .. Len(history) :
           sortedGates[k].type = "Z"
               => history[k] = SignFlipped(Before(k), sortedGates[k].qubit)
    /\ \A q \in 0 .. numQubits - 1 :
           (Done /\ IsCircuitOn(<<"H", "Z", "H">>, q))
               => result.probabilities[BitString(Shl(q), numQubits)] = One

\* the amplitudes i * a and -i * a
TimesI(a) == [real |-> ANeg(a.imag), imag |-> a.real]
TimesMinusI(a) == [real |-> a.imag, imag |-> ANeg(a.real)]

\* after is before with every pair {i, i XOR (1 << q)} exchanged, the factor i
\* on one branch and -i on the other
ExchangedWithPhases(after, before, q) ==
    \/ \A i \in DOMAIN before :
           after[i] = IF BitSet(i, Shl(q)) THEN TimesI(before[Xor(i, Shl(q))])
                                           ELSE TimesMinusI(before[Xor(i, Shl(q))])
    \/ \A i \in DOMAIN before :
           after[i] = IF BitSet(i, Shl(q)) THEN TimesMinusI(before[Xor(i, Shl(q))])
                                           ELSE TimesI(before[Xor(i, Shl(q))])

\* the distribution of after is that of before with bit q of every index flipped
BitFlipped(after, before, q) ==
    \A i \in DOMAIN before :
        Probabilities(after)[i] = Probabilities(before)[Xor(i, Shl(q))]

\* C15: a PauliY gate on qubit q exchanges the amplitudes of every pair
\* {i, i XOR (1 << q)} with the phase factors i and -i, so the distribution
\* after it is the one before with bit q of every index flipped; a single Y(q)
\* on the all-zero state gives probability 1 to the basis state with only bit q
\* set.
C15_PauliYExchangesPairs ==
    /\ (retAmplitudes # None /\ argGate.type = "Y")
           => /\ ExchangedWithPhases(retAmplitudes, argAmplitudes, argGate.qubit)
              /\ BitFlipped(retAmplitudes, argAmplitudes, argGate.qubit)
    /\ \A k \in 1 .. Len(history) :
           sortedGates[k].type = "Y"
               => /\ ExchangedWithPhases(history[k], Before(k), sortedGates[k].qubit)
                  /\ BitFlipped(history[k], Before(k), sortedGates[k].qubit)
    /\ \A q \in 0 .. numQubits - 1 :
           (Done /\ IsCircuitOn(<<"Y">>, q))
               => result.probabilities[BitString(Shl(q), numQubits)] = One

\* (x + y) / sqrt 2 and (x - y) / sqrt 2 on amplitudes, part by part
HalfSum(x, y) ==
    [real |-> AMulInvSqrt2(AAdd(x.real, y.real)), imag |-> AMulInvSqrt2(AAdd(x.imag, y.imag))]
HalfDifference(x, y) ==
    [real |-> AMulInvSqrt2(ASub(x.real, y.real)), imag |-> AMulInvSqrt2(ASub(x.imag, y.imag))]

\* before with every pair (low, high) of qubit q replaced, at once, by
\* ((low + high) / sqrt 2, (low - high) / sqrt 2)
Butterfly(before, q) ==
    [i \in DOMAIN before |->
        IF BitSet(i, Shl(q)) THEN HalfDifference(before[i - Shl(q)], before[i])
                             ELSE HalfSum(before[i], before[i + Shl(q)])]

\* the loop handles every pair {i, i XOR (1 << q)} of a vector of length states
\* once, low member first
VisitsEveryPairOnce(states, q) ==
    LET visits == HVisits({}, 0, states, Shl(q))
    IN  /\ Len(visits) * 2 = states
        /\ {visits[k] : k \in 1 .. Len(visits)} =
               {<<i, i + Shl(q)>> : i \in {l \in 0 .. states - 1 : ~BitSet(l, Shl(q))}}

\* C16: a Hadamard gate on qubit q handles every pair {i, i XOR (1 << q)} once
\* and sets low' = (low + high) / sqrt 2, high' = (low - high) / sqrt 2, both
\* from the amplitudes before the gate, real and imaginary parts separately;
\* H on qubit 0 of the one-qubit all-zero state gives amplitude 1 / sqrt 2 and
\* probability 0.5 on both basis states, imaginary parts 0.
C16_HadamardIsSimultaneous ==
    /\ (retAmplitudes # None /\ argGate.type = "H")
           => /\ retAmplitudes = Butterfly(argAmplitudes, argGate.qubit)
              /\ VisitsEveryPairOnce(Length(argAmplitudes), argGate.qubit)
    /\ \A k \in 1 .. Len(history) :
           sortedGates[k].type = "H"
               => /\ history[k] = Butterfly(Before(k), sortedGates[k].qubit)
                  /\ VisitsEveryPairOnce(Length(history[k]), sortedGates[k].qubit)
    /\ (Done /\ numQubits = 1 /\ IsCircuitOn(<<"H">>, 0))
           => /\ idealAmplitudes = [i \in 0 .. 1 |-> [real |-> <<1, 1>>, imag |-> AZero]]
              /\ \A k \in DOMAIN result.probabilities : result.probabilities[k] = Frac(1, 2)

\* a direct call of H on qubit 1 of two, on a vector whose pair (0, 2) holds i
\* and 1: both members non-zero, one of them imaginary
C16_Witness ==
    /\ retAmplitudes # None
    /\ argGate.type = "H"
    /\ argGate.qubit = 1
    /\ argAmplitudes[0] = [real |-> AZero, imag |-> AOne]
    /\ argAmplitudes[2] = [real |-> AOne, imag |-> AZero]
    /\ retAmplitudes[0] = [real |-> <<1, 1>>, imag |-> <<1, 1>>]
    /\ retAmplitudes[2] = [real |-> <<-1, 1>>, imag |-> <<1, 1>>]

\* C17: under Amplitude Damping noise with decay = 0.8 * totalError, entry 0
\* becomes ideal[0] + (1 - ideal[0]) * decay and every other entry
\* ideal[i] * (1 - decay); for an ideal distribution the vector sums to 1
\* before renormalisation, noisy[0] >= ideal[0] and noisy[i] <= ideal[i], i > 0.
C17_AmplitudeDampingRelaxesToZero ==
    (retNoisy # None /\ noise.type = "Amplitude Damping") =>
        LET states == Length(argIdeal)
            decay  == RMul(TotalError(noise.probability, argGateCount), DecayFactor)
            before == Perturb(argIdeal, noise, argGateCount)
        IN  /\ before[0] = RAdd(argIdeal[0], RMul(RSub(One, argIdeal[0]), decay))
            /\ \A i \in 1 .. states - 1 : before[i] = RMul(argIdeal[i], RSub(One, decay))
            /\ Sum(before) = One
            /\ retNoisy = before
            /\ RLeq(argIdeal[0], retNoisy[0])
            /\ \A i \in 1 .. states - 1 : RLeq(retNoisy[i], argIdeal[i])

\* such a call at a probability strictly between 0 and 1 and a gate count of 2,
\* on a two-qubit distribution with weight off entry 0, which it moved
C17_Witness ==
    /\ retNoisy # None
    /\ noise.type = "Amplitude Damping"
    /\ noise.probability = Frac(1, 2)
    /\ argGateCount = 2
    /\ Length(argIdeal) = 4
    /\ argIdeal[0] = Frac(1, 4)
    /\ RLess(argIdeal[0], retNoisy[0])
    /\ RLess(retNoisy[3], argIdeal[3])

\* the tags with a branch of their own
OwnBranch == {"Depolarizing", "Bit Flip", "Amplitude Damping"}

\* C18: for Phase Damping, Phase Flip and any unrecognised tag applyNoiseModel
\* returns exactly what it returns for Depolarizing on the same ideal
\* distribution, probability and gate count, and every tag yields a result over
\* the indices of the ideal distribution.
C18_OtherKindsAreDepolarizing ==
    retNoisy # None =>
        /\ noise.type \notin OwnBranch =>
               retNoisy = ApplyNoiseModel(
                              argIdeal,
                              [type |-> "Depolarizing", probability |-> noise.probability],
                              argGateCount)
        /\ \A tag \in NoiseTags :
               DOMAIN ApplyNoiseModel(
                          argIdeal, [type |-> tag, probability |-> noise.probability],
                          argGateCount) = DOMAIN argIdeal

\* a call under an unrecognised tag that moved a two-qubit basis distribution
C18_Witness ==
    /\ retNoisy # None
    /\ noise.type \notin NoiseType
    /\ noise.probability = Frac(1, 2)
    /\ argGateCount = 1
    /\ Length(argIdeal) = 4
    /\ argIdeal[3] = One
    /\ retNoisy[3] = Frac(5, 8)
    /\ retNoisy[0] = Frac(1, 8)

----------------------------------------------------------------------------
(* App: the editor state, the effect that runs the simulation *)

\* simulator.simulate(gates, noise) as a whole: it has no await of its own, so an
\* invocation runs from its call to its return without interleaving
Simulate(gs, noiseCfg, n) ==
    SimulationResult(ApplyAll(InitialAmplitudes(Pow(2, n)), SortByTime(gs), Len(gs)),
                     gs, noiseCfg, n)

\* prev.filter(g => !(g.qubit === qubit && g.time === time))
RECURSIVE FilterOutCell(_, _, _)
FilterOutCell(prev, qubit, time) ==
    IF prev = <<>> THEN <<>>
    ELSE LET rest == FilterOutCell(Tail(prev), qubit, time)
         IN  IF Head(prev).qubit = qubit /\ Head(prev).time = time
                 THEN rest ELSE <<Head(prev)>> \o rest

\* prev.filter(g => g.id !== id)
RECURSIVE FilterOutId(_, _)
FilterOutId(prev, id) ==
    IF prev = <<>> THEN <<>>
    ELSE IF Head(prev).id = id THEN FilterOutId(Tail(prev), id)
    ELSE <<Head(prev)>> \o FilterOutId(Tail(prev), id)

\* the new gate appended without the filter
AppendGate(prev, gate) == Append(prev, gate)

\* the updater of handleAddGate: [...filtered, gate]
ReplaceAtCell(prev, gate) == Append(FilterOutCell(prev, gate.qubit, gate.time), gate)

\* the gate handleAddGate builds
NewGate(id, type, qubit, time) ==
    Gate(id, type, qubit, IF type = "CNOT" THEN (qubit + 1) % MAX_QUBITS ELSE Undefined, time)

\* what every handler leaves alone
hostFrame == <<numQubits, pc, sortedGates, idx, idealAmplitudes, result, history,
               firstResult, callerGates, calls, noiseVars, gateVars, insightVars>>

\* the longest circuit handleAddGate is driven to build
MaxCircuit == 2

handleAddGate(qubit, time, type, id) ==
    /\ Len(FilterOutCell(gates, qubit, time)) < MaxCircuit
    /\ gates' = ReplaceAtCell(gates, NewGate(id, type, qubit, time))
    /\ effectPending' = TRUE
    /\ UNCHANGED <<hostFrame, noise, results, loading, insights, inflight, superseded>>

handleRemoveGate(id) ==
    /\ gates' = FilterOutId(gates, id)
    /\ effectPending' = TRUE
    /\ UNCHANGED <<hostFrame, noise, results, loading, insights, inflight, superseded>>

\* loadPreset(name): a name that is none of the three changes no gate
loadPreset(name) ==
    /\ insights' = ""
    /\ IF name \in PresetNames
           THEN gates' = Preset(name) /\ effectPending' = TRUE
           ELSE UNCHANGED <<gates, effectPending>>
    /\ UNCHANGED <<hostFrame, noise, results, loading, inflight, superseded>>

\* the Reset Laboratory button: setGates([])
Reset ==
    /\ gates' = <<>>
    /\ effectPending' = TRUE
    /\ UNCHANGED <<hostFrame, noise, results, loading, insights, inflight, superseded>>

\* the noise kind select: setNoise(prev => ({...prev, type}))
setNoiseType(type) ==
    /\ noise' = [noise EXCEPT !.type = type]
    /\ effectPending' = TRUE
    /\ UNCHANGED <<hostFrame, gates, results, loading, insights, inflight, superseded>>

\* the noise magnitude slider: setNoise(prev => ({...prev, probability}))
setNoiseProbability(p) ==
    /\ noise' = [noise EXCEPT !.probability = p]
    /\ effectPending' = TRUE
    /\ UNCHANGED <<hostFrame, gates, results, loading, insights, inflight, superseded>>

\* the most invocations of runSimulation suspended at once
MaxInFlight == 2

\* the effect calls runSimulation, which runs up to its await: setLoading(true)
\* and simulate on the gates and noise of the render
runSimulation ==
    /\ effectPending
    /\ Len(inflight) < MaxInFlight
    /\ effectPending' = FALSE
    /\ loading' = TRUE
    /\ inflight' = Append(inflight, Simulate(gates, noise, numQubits))
    /\ UNCHANGED <<hostFrame, gates, noise, results, insights, superseded>>

\* suspended invocations resuming in any order
ResumableInAnyOrder(queue) == 1 .. Len(queue)

\* the positions in the queue of the invocations that can resume next: promise
\* reactions run in the order the promises were awaited
Resumable(queue) == IF queue = <<>> THEN {} ELSE {1}

\* queue without its entry k
Without(queue, k) == SubSeq(queue, 1, k - 1) \o SubSeq(queue, k + 1, Len(queue))

\* an invocation resumes after its await: setResults(res); setLoading(false)
runSimulationResume ==
    \E k \in Resumable(inflight) :
        /\ results' = inflight[k]
        /\ loading' = FALSE
        /\ inflight' = Without(inflight, k)
        /\ superseded' = (superseded \/ k < Len(inflight))
        /\ UNCHANGED <<hostFrame, gates, noise, insights, effectPending>>

\* the App after its first render: the effect of the mount has yet to run
HostInit ==
    /\ numQubits = MAX_QUBITS
    /\ gates = <<>>
    /\ noise = [type |-> "Depolarizing", probability |-> Frac(1, 20)]
    /\ SimIdle
    /\ argIdeal = None
    /\ argGateCount = 0
    /\ retNoisy = None
    /\ NoGateCall
    /\ NoInsightCall
    /\ results = None
    /\ loading = FALSE
    /\ insights = ""
    /\ effectPending = TRUE
    /\ inflight = <<>>
    /\ superseded = FALSE

\* the time steps, gate kinds and ids the editor is driven with: a gate with a
\* control and one without; the ids of new gates are random, those of the
\* presets are 1, 2 and 3
EditorTimeSteps == {0, 1}
EditorGateTypes == {"H", "CNOT"}
RandomIds == {4, 5}

AddGate ==
    \E qubit \in 0 .. MAX_QUBITS - 1, time \in EditorTimeSteps,
       type \in EditorGateTypes, id \in RandomIds :
        handleAddGate(qubit, time, type, id)

\* the remove button of a gate on the grid
RemoveGate == \E k \in 1 .. Len(gates) : handleRemoveGate(gates[k].id)

LoadPreset == \E name \in PresetNames \cup {"custom"} : loadPreset(name)

EditorNext == AddGate \/ RemoveGate \/ LoadPreset \/ Reset

\* the editor alone: the handlers that write the circuit
EditorSpec == HostInit /\ [][EditorNext]_vars

\* what the App is driven with when its simulations are followed
HostNoiseTypes == {"Depolarizing", "Bit Flip"}
HostProbabilities == {Frac(1, 20), Frac(1, 4)}

HostAddGate == handleAddGate(0, 0, "X", 4)

SetNoiseType == \E type \in HostNoiseTypes : setNoiseType(type)

SetNoiseProbability == \E p \in HostProbabilities : setNoiseProbability(p)

HostNext ==
    \/ HostAddGate \/ RemoveGate \/ Reset
    \/ SetNoiseType \/ SetNoiseProbability
    \/ runSimulation \/ runSimulationResume

\* the App with its effect and the invocations of runSimulation
HostSpec == HostInit /\ [][HostNext]_vars

\* no two gates of the circuit on one (qubit, time step) pair
OneGatePerCell ==
    \A i, j \in 1 .. Len(gates) :
        (gates[i].qubit = gates[j].qubit /\ gates[i].time = gates[j].time) => i = j

\* the gates of a list, as a set
GatesOf(gs) == {gs[k] : k \in 1 .. Len(gs)}

\* g sits on the pair (qubit, time)
OnCell(g, qubit, time) == g.qubit = qubit /\ g.time = time

\* C19: whatever sequence of handleAddGate, handleRemoveGate, loadPreset and
\* reset the editor went through from the empty circuit, no two gates of the
\* circuit are on one (qubit, time step) pair; handleAddGate on an occupied pair
\* leaves the new gate as the only one of the pair and keeps every gate of the
\* other pairs.
C19_OneGatePerCell ==
    [][/\ OneGatePerCell'
       /\ Len(gates') > 0 =>
              \* a step of handleAddGate leaves the gate it built at the end of
              \* the list: its arguments are read off that gate
              LET new == gates'[Len(gates')]
              IN  handleAddGate(new.qubit, new.time, new.type, new.id) =>
                      /\ {g \in GatesOf(gates') : OnCell(g, new.qubit, new.time)} = {new}
                      /\ {g \in GatesOf(gates') : ~OnCell(g, new.qubit, new.time)}
                             = {g \in GatesOf(gates) : ~OnCell(g, new.qubit, new.time)}
                      /\ Len(gates') =
                             Cardinality({k \in 1 .. Len(gates) :
                                             ~OnCell(gates[k], new.qubit, new.time)}) + 1
      ]_vars

\* a circuit where a new CNOT holds the pair of the Bell preset's Hadamard,
\* beside the CNOT of the preset
C19_Witness ==
    /\ Len(gates) = 2
    /\ gates[1] = Gate(2, "CNOT", 1, 0, 1)
    /\ gates[2] = Gate(4, "CNOT", 0, 1, 0)
    /\ OneGatePerCell

\* no effect is due and no invocation of runSimulation is suspended
Quiescent == ~effectPending /\ inflight = <<>>

\* C20: every change of gates or noise makes the effect due, which invokes the
\* simulation again; an invocation that completes stores its result, superseded
\* or not; and whenever no effect is due and no invocation is in flight, the
\* stored result is the one of the current gates and noise, and loading is false.
C20_LatestResultWins ==
    [][/\ (gates' # gates \/ noise' # noise) => effectPending'
       /\ Len(inflight') < Len(inflight) => (results' = Head(inflight) /\ ~loading')
       /\ Quiescent' =>
              /\ results' = Simulate(gates', noise', numQubits')
              /\ ~loading'
      ]_vars

\* the App at rest on a circuit and a noise kind other than those of the mount,
\* after a result of a superseded invocation had been stored
C20_Witness ==
    /\ Quiescent
    /\ superseded
    /\ Len(gates) = 1
    /\ noise.type = "Bit Flip"
    /\ results = Simulate(gates, noise, numQubits)
    /\ ~loading

====
